---- MODULE Spec2Model ----
(***************************************************************************)
(* The live audio/text streaming session manager of App.tsx: the React     *)
(* component's state and refs, the handlers passed to ai.live.connect and   *)
(* the start/stop routines, as one state machine.  Each action is one run   *)
(* of a handler between two suspension points (await) of the source.       *)
(***************************************************************************)
EXTENDS Integers, Sequences, FiniteSets, TLC

\* ------------------------------------------------------------------ bounds
MaxSessions == 3   \* startInterview invocations of the whole-client specification
MaxStarts   == 2   \* startInterview invocations of the lifecycle and capture specifications
MaxMsgs     == 2   \* inbound messages of the transcript specification
MaxChunks   == 2   \* inbound messages of the playback specification
MaxSessionMsgs == 1 \* inbound messages of the whole-client specification
MaxFrames   == 2   \* onaudioprocess invocations
MaxNow      == 2   \* values of Date.now()
MaxTime     == 2   \* values of outputAudioContext.currentTime

Sessions == 1..MaxSessions

\* ------------------------------------------------------------ value spaces
Absent == "<absent>"                 \* a field that the message does not carry
NoId   == [p |-> "", n |-> 0]        \* the empty string held by the id refs
UserTexts  == {"", "Hi", "Hi all"}
ModelTexts == {"", "Hello", "Hello there"}
Durations  == {1, 2}                 \* audioBuffer.duration, in half seconds
Malformed  == -1                     \* an audio frame that decode rejects
NoAudio    == 0

\* LiveServerMessage.serverContent, the fields handleMessage reads
Messages ==
  [input : {Absent} \cup UserTexts, output : {Absent} \cup ModelTexts,
   audio : {NoAudio, Malformed} \cup Durations,
   turnComplete : BOOLEAN, interrupted : BOOLEAN]

NoMsg == [input |-> Absent, output |-> Absent, audio |-> NoAudio,
          turnComplete |-> FALSE, interrupted |-> FALSE]

Max(a, b) == IF a >= b THEN a ELSE b

VARIABLES
  \* React state
  isRecording, isLoading, messages, statusMessage, savedTranscripts,
  \* refs
  liveSessionRef, streamRef, inputAudioContextRef, outputAudioContextRef,
  scriptProcessorRef, outputAudioSourcesRef, nextStartTimeRef,
  currentInputTranscriptionRef, currentOutputTranscriptionRef,
  lastUserMessageIdRef, lastModelMessageIdRef,
  \* the environment: startInterview invocations, connections, devices, clocks
  startPc, closure, conn, thens, sent, tracksLive, contextsOpen, wired,
  decoding, handles, dateNow, currentTime,
  \* history of the run (thrown: the call of the last stopInterview that threw)
  handled, stopped, endPending, schedBase, bumped, dropped, captured,
  nMsgs, nFrames, thrown

reactVars == <<isRecording, isLoading, messages, statusMessage, savedTranscripts>>
refVars   == <<liveSessionRef, streamRef, inputAudioContextRef, outputAudioContextRef,
               scriptProcessorRef, outputAudioSourcesRef, nextStartTimeRef,
               currentInputTranscriptionRef, currentOutputTranscriptionRef,
               lastUserMessageIdRef, lastModelMessageIdRef>>
envVars   == <<startPc, closure, conn, thens, sent, tracksLive, contextsOpen, wired,
               decoding, handles, dateNow, currentTime>>
histVars  == <<handled, stopped, endPending, schedBase, bumped, dropped,
               captured, nMsgs, nFrames, thrown>>
vars      == <<reactVars, refVars, envVars, histVars>>

Speakers == {"user", "model"}

\* what the last completed handleMessage invocation did
NoHandled == [n |-> 0, msg |-> NoMsg, handle |-> 0, outcome |-> "none", sid |-> 0,
              finals |-> << >>]


Init ==
  /\ isRecording = FALSE
  /\ isLoading = FALSE
  /\ messages = << >>
  /\ statusMessage = "Press the mic to start the interview."
  /\ savedTranscripts = << >>
  /\ liveSessionRef = 0
  /\ streamRef = 0
  /\ inputAudioContextRef = 0
  /\ outputAudioContextRef = 0
  /\ scriptProcessorRef = 0
  /\ outputAudioSourcesRef = {}
  /\ nextStartTimeRef = 0
  /\ currentInputTranscriptionRef = ""
  /\ currentOutputTranscriptionRef = ""
  /\ lastUserMessageIdRef = NoId
  /\ lastModelMessageIdRef = NoId
  /\ startPc = [k \in Sessions |-> "none"]
  /\ closure = [k \in Sessions |-> [isRecording |-> FALSE, messages |-> << >>]]
  /\ conn = [k \in Sessions |-> "none"]
  /\ thens = [k \in Sessions |-> << >>]
  /\ sent = << >>
  /\ tracksLive = {}
  /\ contextsOpen = {}
  /\ wired = {}
  /\ decoding = {}
  /\ handles = << >>
  /\ dateNow = 1
  /\ currentTime = 0
  /\ handled = NoHandled
  /\ stopped = {}
  /\ endPending = {}
  /\ schedBase = 0
  /\ bumped = FALSE
  /\ dropped = [s \in Speakers |-> {}]
  /\ captured = << >>
  /\ nMsgs = 0
  /\ nFrames = 0
  /\ thrown = "none"

\* ------------------------------------------------------------- transcript
IsPartial(m) == m.isPartial
IsFinal(m)   == ~m.isPartial

\* prevMessages.findIndex(msg => msg.id === message.id && msg.speaker === ...)
FindIndex(prev, m) ==
  LET S == {i \in DOMAIN prev : prev[i].id = m.id /\ prev[i].speaker = m.speaker}
  IN  IF S = {} THEN 0 ELSE CHOOSE i \in S : \A j \in S : i <= j

addMessage(prev, m) ==
  IF m.isPartial /\ m.id # NoId /\ FindIndex(prev, m) # 0
    THEN [prev EXCEPT ![FindIndex(prev, m)] = m]
    ELSE Append(prev, m)

clearPartialMessages(prev) == SelectSeq(prev, IsFinal)

Msg(id, speaker, text, partial) ==
  [id |-> id, speaker |-> speaker, text |-> text, isPartial |-> partial]

\* The part of the component that one handleMessage invocation reads and
\* writes, as a record threaded through the branches in source order.
Refs ==
  [messages |-> messages, status |-> statusMessage,
   lastUser |-> lastUserMessageIdRef, lastModel |-> lastModelMessageIdRef,
   curIn |-> currentInputTranscriptionRef, curOut |-> currentOutputTranscriptionRef,
   nst |-> nextStartTimeRef, live |-> outputAudioSourcesRef,
   handles |-> handles, stopped |-> stopped, endPending |-> endPending,
   schedBase |-> schedBase, bumped |-> bumped, dropped |-> dropped,
   finals |-> << >>, handle |-> 0]

\* if (message.serverContent?.inputTranscription) { ... }
InputTranscription(st, msg, now) ==
  IF msg.input = Absent THEN st
  ELSE LET text == msg.input
           id   == IF st.lastUser = NoId THEN [p |-> "user", n |-> now]
                                         ELSE st.lastUser
       IN [st EXCEPT
             !.lastUser = IF text # "" THEN id ELSE @,
             !.messages = IF text # "" THEN addMessage(@, Msg(id, "user", text, TRUE))
                                       ELSE @,
             !.curIn    = text,
             !.dropped  = IF text # "" THEN [@ EXCEPT !["user"] = {}] ELSE @,
             !.status   = "Listening..."]

\* if (message.serverContent?.outputTranscription) { ... }
OutputTranscription(st, msg, now) ==
  IF msg.output = Absent THEN st
  ELSE LET text == msg.output
           id   == IF st.lastModel = NoId THEN [p |-> "model", n |-> now]
                                          ELSE st.lastModel
       IN [st EXCEPT
             !.lastModel = IF text # "" THEN id ELSE @,
             !.messages  = IF text # "" THEN addMessage(@, Msg(id, "model", text, TRUE))
                                        ELSE @,
             !.curOut    = text,
             !.dropped   = IF text # "" THEN [@ EXCEPT !["model"] = {}] ELSE @,
             !.status    = "Speaking..."]

\* ------------------------------------------------------------- scheduler
\* nextStartTimeRef.current = Math.max(nextStartTimeRef.current, ctx.currentTime)
AudioBegin(st, now) ==
  [st EXCEPT !.nst = Max(@, now), !.bumped = @ \/ now > st.nst]

\* mutant: the cursor is not advanced past the chunk just scheduled
AudioPlay_NoAdvance(st, duration, rec) ==
  LET h == Len(st.handles) + 1
  IN [st EXCEPT
        !.handles = Append(@, [start |-> st.nst, duration |-> duration,
                               bumped |-> st.bumped, run |-> st.schedBase,
                               rec |-> rec]),
        !.live    = @ \cup {h},
        !.bumped  = FALSE,
        !.handle  = h,
        !.status  = "Speaking..."]

\* createBufferSource ... source.start(nextStartTime); nextStartTime += duration;
\* outputAudioSourcesRef.current.add(source)
AudioPlay(st, duration, rec) ==
  LET h == Len(st.handles) + 1
  IN [st EXCEPT
        !.handles = Append(@, [start |-> st.nst, duration |-> duration,
                               bumped |-> st.bumped, run |-> st.schedBase,
                               rec |-> rec]),
        !.nst     = @ + duration,
        !.live    = @ \cup {h},
        !.bumped  = FALSE,
        !.handle  = h,
        !.status  = "Speaking..."]

\* if (message.serverContent?.turnComplete) { ... }
\* mutant: finalizing the user's utterance keeps its message id
FinalizeUser_KeepsId(st) ==
  IF st.curIn # ""
    THEN [st EXCEPT
            !.messages = addMessage(@, Msg(st.lastUser, "user", st.curIn, FALSE)),
            !.finals   = Append(@, Msg(st.lastUser, "user", st.curIn, FALSE)),
            !.curIn    = ""]
    ELSE st

FinalizeUser(st) ==
  IF st.curIn # ""
    THEN [st EXCEPT
            !.messages = addMessage(@, Msg(st.lastUser, "user", st.curIn, FALSE)),
            !.finals   = Append(@, Msg(st.lastUser, "user", st.curIn, FALSE)),
            !.curIn    = "",
            !.lastUser = NoId]
    ELSE st

FinalizeModel(st) ==
  IF st.curOut # ""
    THEN [st EXCEPT
            !.messages  = addMessage(@, Msg(st.lastModel, "model", st.curOut, FALSE)),
            !.finals    = Append(@, Msg(st.lastModel, "model", st.curOut, FALSE)),
            !.curOut    = "",
            !.lastModel = NoId]
    ELSE st

TurnComplete(st, msg, rec) ==
  IF ~msg.turnComplete THEN st
  ELSE LET s2 == FinalizeModel(FinalizeUser(st))
       IN [s2 EXCEPT !.status =
             IF ~rec /\ s2.live = {} THEN "Press the mic to continue."
             ELSE IF rec THEN "Listening..." ELSE @]

OpenTexts(msgs, speaker) ==
  {msgs[i].text : i \in {j \in DOMAIN msgs : msgs[j].isPartial /\ msgs[j].speaker = speaker}}

\* mutant: the interruption leaves the cursor where it was
Interrupted_KeepsCursor(st, msg) ==
  IF ~msg.interrupted THEN st
  ELSE [st EXCEPT
          !.stopped    = @ \cup st.live,
          !.endPending = @ \cup st.live,
          !.live       = {},
          !.schedBase  = Len(st.handles),
          !.bumped     = FALSE,
          !.dropped    = [s \in Speakers |-> @[s] \cup OpenTexts(st.messages, s)],
          !.messages   = clearPartialMessages(@),
          !.status     = "Conversation interrupted. Please speak again."]

\* if (interrupted) { stop and delete every source; nextStartTime = 0;
\*                    clearPartialMessages() }
Interrupted(st, msg) ==
  IF ~msg.interrupted THEN st
  ELSE [st EXCEPT
          !.stopped    = @ \cup st.live,
          !.endPending = @ \cup st.live,
          !.live       = {},
          !.nst        = 0,
          !.schedBase  = Len(st.handles),
          !.bumped     = FALSE,
          !.dropped    = [s \in Speakers |-> @[s] \cup OpenTexts(st.messages, s)],
          !.messages   = clearPartialMessages(@),
          !.status     = "Conversation interrupted. Please speak again."]

\* the rest of handleMessage after the audio branch
AfterAudio(st, msg, rec) == Interrupted(TurnComplete(st, msg, rec), msg)

\* mutant: the interrupted field is handled before the audio field
Resume_InterruptFirst(st, msg, rec) ==
  AudioPlay(TurnComplete(Interrupted(st, msg), msg, rec), msg.audio, rec)

\* handleMessage from the point where decodeAudioData has returned a buffer
Resume(st, msg, rec) == AfterAudio(AudioPlay(st, msg.audio, rec), msg, rec)

\* writes the record back to the component
Commit(st) ==
  /\ messages' = st.messages
  /\ statusMessage' = st.status
  /\ lastUserMessageIdRef' = st.lastUser
  /\ lastModelMessageIdRef' = st.lastModel
  /\ currentInputTranscriptionRef' = st.curIn
  /\ currentOutputTranscriptionRef' = st.curOut
  /\ nextStartTimeRef' = st.nst
  /\ outputAudioSourcesRef' = st.live
  /\ handles' = st.handles
  /\ stopped' = st.stopped
  /\ endPending' = st.endPending
  /\ schedBase' = st.schedBase
  /\ bumped' = st.bumped
  /\ dropped' = st.dropped

\* ------------------------------------------------------ teardown (stop)
\* saveCurrentTranscript without its filter
SavedAfter_Unfiltered(seen) ==
  IF Len(seen) > 0
    THEN Append(savedTranscripts,
                [id |-> dateNow, timestamp |-> dateNow, messages |-> seen])
    ELSE savedTranscripts

\* saveCurrentTranscript, with the messages its closure captured
SavedAfter(seen) ==
  IF Len(seen) > 0
    THEN Append(savedTranscripts,
                [id |-> dateNow, timestamp |-> dateNow,
                 messages |-> SelectSeq(seen, IsFinal)])
    ELSE savedTranscripts

StatusAfterSave(seen) ==
  IF Len(seen) > 0 THEN "Interview ended and transcript saved!"
                   ELSE "Interview ended."

\* liveSessionRef.current.then(session => session.close()).catch(...)
\* on the promise of connection k: runs now if it is settled, later if pending
ConnAfterClose(c, k) ==
  IF k # 0 /\ c[k] = "open" THEN [c EXCEPT ![k] = "closing"] ELSE c

ThensAfterClose(c, t, k) ==
  IF k # 0 /\ c[k] = "pending"
    THEN [t EXCEPT ![k] = Append(@, [type |-> "close", frame |-> 0])]
    ELSE t

\* the calls of stopInterview that release something, in source order
ReleaseSteps ==
  <<"track.stop", "scriptProcessor.disconnect", "inputAudioContext.close",
    "source.stop", "outputAudioContext.close", "session.close">>

Range(f) == {f[i] : i \in DOMAIN f}

\* if (scriptProcessorRef.current && inputAudioContextRef.current)
Capturing == scriptProcessorRef # 0 /\ inputAudioContextRef # 0

\* The call at which stopInterview is left by an exception, when the call
\* `fail` throws.  source.stop() is inside try/catch and the close() calls
\* reject a promise that has a .catch, so only the two bare calls end the run.
AbortsAt(fail) ==
  IF fail = "track.stop" /\ streamRef # 0 THEN "track.stop"
  ELSE IF fail = "scriptProcessor.disconnect" /\ Capturing
         THEN "scriptProcessor.disconnect"
  ELSE "none"

\* stopInterview with saveCurrentTranscript as its last call
TeardownSteps_SaveLast(seen, fail) ==
  LET save == IF Len(seen) > 0 THEN <<"saveCurrentTranscript">> ELSE << >>
      trk  == IF streamRef # 0 THEN <<"track.stop">> ELSE << >>
      dis  == IF Capturing THEN <<"scriptProcessor.disconnect">> ELSE << >>
      inp  == IF Capturing THEN <<"inputAudioContext.close">> ELSE << >>
      src  == IF outputAudioSourcesRef # {} THEN <<"source.stop">> ELSE << >>
      out  == IF outputAudioContextRef # 0 THEN <<"outputAudioContext.close">> ELSE << >>
      ses  == IF liveSessionRef # 0 THEN <<"session.close">> ELSE << >>
  IN  IF AbortsAt(fail) = "track.stop" THEN trk
      ELSE IF AbortsAt(fail) = "scriptProcessor.disconnect" THEN trk \o dis
      ELSE trk \o dis \o inp \o src \o out \o ses \o save

\* the calls stopInterview makes, in the order it makes them
TeardownSteps(seen, fail) ==
  LET save == IF Len(seen) > 0 THEN <<"saveCurrentTranscript">> ELSE << >>
      trk  == IF streamRef # 0 THEN <<"track.stop">> ELSE << >>
      dis  == IF Capturing THEN <<"scriptProcessor.disconnect">> ELSE << >>
      inp  == IF Capturing THEN <<"inputAudioContext.close">> ELSE << >>
      src  == IF outputAudioSourcesRef # {} THEN <<"source.stop">> ELSE << >>
      out  == IF outputAudioContextRef # 0 THEN <<"outputAudioContext.close">> ELSE << >>
      ses  == IF liveSessionRef # 0 THEN <<"session.close">> ELSE << >>
  IN  IF AbortsAt(fail) = "track.stop" THEN save \o trk
      ELSE IF AbortsAt(fail) = "scriptProcessor.disconnect" THEN save \o trk \o dis
      ELSE save \o trk \o dis \o inp \o src \o out \o ses

\* the playback handle whose stop() throws, when one does
FailedSource(fail) ==
  IF fail = "source.stop" /\ outputAudioSourcesRef # {}
    THEN {CHOOSE h \in outputAudioSourcesRef : \A g \in outputAudioSourcesRef : h <= g}
    ELSE {}

\* stopInterview, called from a closure that sees `seen` as messages, while
\* the release call `fail` (if any) throws
Teardown(seen, c, t, fail) ==
  LET ran == AbortsAt(fail) = "none"   \* the run reaches its last statement
  IN
  /\ isRecording' = FALSE
  /\ isLoading' = FALSE
  /\ savedTranscripts' = SavedAfter(seen)
  /\ statusMessage' = StatusAfterSave(seen)
  /\ messages' = << >>
  /\ tracksLive' = IF streamRef # 0 /\ AbortsAt(fail) # "track.stop"
                     THEN tracksLive \ {streamRef} ELSE tracksLive
  /\ streamRef' = IF AbortsAt(fail) = "track.stop" THEN streamRef ELSE 0
  /\ IF Capturing /\ ran
       THEN /\ wired' = wired \ {scriptProcessorRef}
            /\ inputAudioContextRef' = 0
            /\ scriptProcessorRef' = 0
       ELSE UNCHANGED <<wired, inputAudioContextRef, scriptProcessorRef>>
  /\ contextsOpen' =
       (contextsOpen
          \ (IF Capturing /\ ran /\ fail # "inputAudioContext.close"
               THEN {<<"in", inputAudioContextRef>>} ELSE {}))
          \ (IF outputAudioContextRef # 0 /\ ran /\ fail # "outputAudioContext.close"
               THEN {<<"out", outputAudioContextRef>>} ELSE {})
  /\ stopped' = IF ran THEN stopped \cup (outputAudioSourcesRef \ FailedSource(fail))
                       ELSE stopped
  /\ endPending' = IF ran THEN endPending \cup outputAudioSourcesRef ELSE endPending
  /\ outputAudioSourcesRef' = IF ran THEN {} ELSE outputAudioSourcesRef
  /\ nextStartTimeRef' = IF ran THEN 0 ELSE nextStartTimeRef
  /\ schedBase' = IF ran THEN Len(handles) ELSE schedBase
  /\ bumped' = IF ran THEN FALSE ELSE bumped
  /\ outputAudioContextRef' = IF ran THEN 0 ELSE outputAudioContextRef
  /\ conn' = IF ran /\ fail # "session.close"
               THEN ConnAfterClose(c, liveSessionRef) ELSE c
  /\ thens' = IF ran /\ fail # "session.close"
                THEN ThensAfterClose(c, t, liveSessionRef) ELSE t
  /\ liveSessionRef' = IF ran THEN 0 ELSE liveSessionRef
  /\ currentInputTranscriptionRef' = IF ran THEN "" ELSE currentInputTranscriptionRef
  /\ currentOutputTranscriptionRef' = IF ran THEN "" ELSE currentOutputTranscriptionRef
  /\ lastUserMessageIdRef' = IF ran THEN NoId ELSE lastUserMessageIdRef
  /\ lastModelMessageIdRef' = IF ran THEN NoId ELSE lastModelMessageIdRef
  /\ dropped' = [s \in Speakers |-> {}]
  /\ thrown' = fail

\* stopInterview with the browser and the transport behaving as documented:
\* none of its calls throws
StopInterview(seen, c, t) == Teardown(seen, c, t, "none")

\* toggleInterview while recording, in an environment where the release call
\* `fail`, one that this run makes, throws
ToggleStopThrows(fail) ==
  /\ ~isLoading
  /\ isRecording \/ isLoading
  /\ fail \in Range(ReleaseSteps) \cap Range(TeardownSteps(messages, "none"))
  /\ Teardown(messages, conn, thens, fail)
  /\ UNCHANGED <<startPc, closure, sent, decoding, handles, dateNow, currentTime,
                 handled, captured, nMsgs, nFrames>>

\* a click on the mic button, which is disabled while isLoading, with
\* toggleInterview taking its stop branch: stopInterview of the current render
ToggleStop ==
  /\ ~isLoading
  /\ isRecording \/ isLoading
  /\ StopInterview(messages, conn, thens)
  /\ UNCHANGED <<startPc, closure, sent, decoding, handles, dateNow, currentTime,
                 handled, captured, nMsgs, nFrames>>

\* ----------------------------------------------------------------- start
NextSession ==
  IF \E k \in Sessions : startPc[k] = "none"
    THEN CHOOSE k \in Sessions : startPc[k] = "none" /\ \A j \in Sessions : startPc[j] = "none" => k <= j
    ELSE 0

\* toggleInterview while idle: startInterview up to its first await
StartInterview ==
  /\ ~(isRecording \/ isLoading)
  /\ NextSession # 0
  /\ LET k == NextSession IN
       /\ startPc' = [startPc EXCEPT ![k] = "mic1"]
       /\ closure' = [closure EXCEPT ![k] = [isRecording |-> isRecording, messages |-> messages]]
  /\ isLoading' = TRUE
  /\ statusMessage' = "Connecting to AI interviewer..."
  /\ messages' = << >>
  /\ lastUserMessageIdRef' = NoId
  /\ lastModelMessageIdRef' = NoId
  /\ UNCHANGED <<isRecording, savedTranscripts, liveSessionRef, streamRef,
                 inputAudioContextRef, outputAudioContextRef, scriptProcessorRef,
                 outputAudioSourcesRef, nextStartTimeRef,
                 currentInputTranscriptionRef, currentOutputTranscriptionRef,
                 conn, thens, sent, tracksLive, contextsOpen, wired, decoding,
                 handles, dateNow, currentTime,
                 handled, thrown, stopped, endPending, schedBase, bumped, dropped,
                 captured, nMsgs, nFrames>>

\* catch (error) { setIsLoading(false); setIsRecording(false);
\*                 setStatusMessage(...); stopInterview(); }
StartFailed(k) ==
  /\ StopInterview(closure[k].messages, conn, thens)
  /\ startPc' = [startPc EXCEPT ![k] = "failed"]
  /\ UNCHANGED <<closure, sent, decoding, handles, dateNow, currentTime,
                 handled, captured, nMsgs, nFrames>>

\* the first getUserMedia of startInterview settles
MicFirst(k, ok) ==
  /\ startPc[k] = "mic1"
  /\ IF ok
       THEN /\ startPc' = [startPc EXCEPT ![k] = "mic2"]
            /\ tracksLive' = tracksLive \cup {2 * k - 1}
            /\ UNCHANGED <<reactVars, refVars, closure, conn, thens, sent,
                           contextsOpen, wired, decoding, handles, dateNow,
                           currentTime, handled, thrown, stopped, endPending, schedBase,
                           bumped, dropped, captured, nMsgs, nFrames>>
       ELSE StartFailed(k)

\* the second getUserMedia settles; on success the rest of the try block runs:
\* both audio contexts, ai.live.connect, the script processor and its wiring
MicSecond(k, ok) ==
  /\ startPc[k] = "mic2"
  /\ IF ok
       THEN /\ startPc' = [startPc EXCEPT ![k] = "done"]
            /\ tracksLive' = tracksLive \cup {2 * k}
            /\ streamRef' = 2 * k
            /\ inputAudioContextRef' = k
            /\ outputAudioContextRef' = k
            /\ contextsOpen' = contextsOpen \cup {<<"in", k>>, <<"out", k>>}
            /\ currentTime' = 0
            /\ liveSessionRef' = k
            /\ conn' = [conn EXCEPT ![k] = "pending"]
            /\ scriptProcessorRef' = k
            /\ wired' = wired \cup {k}
            /\ UNCHANGED <<reactVars, outputAudioSourcesRef, nextStartTimeRef,
                           currentInputTranscriptionRef, currentOutputTranscriptionRef,
                           lastUserMessageIdRef, lastModelMessageIdRef,
                           closure, thens, sent, decoding, handles, dateNow,
                           handled, thrown, stopped, endPending, schedBase,
                           bumped, dropped, captured, nMsgs, nFrames>>
       ELSE StartFailed(k)

\* ------------------------------------------------------------ connection
\* the connect promise taken as never resolved
Settled_Never(k) == FALSE

Settled(k) == conn[k] \in {"open", "closing", "closed", "errored", "aborted"}

\* mutant: the callbacks waiting on the promise are discarded at open
Frames_Dropped(t) == << >>

Frames(t) ==
  LET sends == SelectSeq(t, LAMBDA cb : cb.type = "send")
  IN [i \in DOMAIN sends |-> sends[i].frame]

HasClose(t) == \E i \in DOMAIN t : t[i].type = "close"

\* The stream's open acknowledgment: the onopen callback runs, the promise
\* returned by connect resolves and the callbacks waiting on it run in
\* registration order.
Open(k) ==
  /\ conn[k] = "pending"
  /\ isRecording' = TRUE
  /\ isLoading' = FALSE
  /\ statusMessage' = "Interview started. Waiting for AI to speak..."
  /\ sent' = sent \o Frames(thens[k])
  /\ conn' = [conn EXCEPT ![k] = IF HasClose(thens[k]) THEN "closing" ELSE "open"]
  /\ thens' = [thens EXCEPT ![k] = << >>]
  /\ UNCHANGED <<messages, savedTranscripts, refVars, startPc, closure, tracksLive,
                 contextsOpen, wired, decoding, handles, dateNow, currentTime,
                 handled, thrown, stopped, endPending, schedBase, bumped, dropped,
                 captured, nMsgs, nFrames>>

\* scriptProcessor.onaudioprocess of session k's capture node:
\* liveSessionRef.current?.then(session => session.sendRealtimeInput(...))
CaptureFrame(k) ==
  /\ k \in wired
  /\ <<"in", k>> \in contextsOpen
  /\ nFrames < MaxFrames
  /\ nFrames' = nFrames + 1
  /\ LET r == liveSessionRef
         f == [frame |-> nFrames + 1, sid |-> r,
               early |-> IF r = 0 THEN FALSE ELSE conn[r] = "pending"]
     IN /\ captured' = Append(captured, f)
        /\ thens' = IF r # 0 /\ conn[r] = "pending"
                      THEN [thens EXCEPT ![r] = Append(@, [type |-> "send", frame |-> f])]
                      ELSE thens
        /\ sent' = IF r # 0 /\ Settled(r) THEN Append(sent, f) ELSE sent
  /\ UNCHANGED <<reactVars, refVars, startPc, closure, conn, tracksLive,
                 contextsOpen, wired, decoding, handles, dateNow, currentTime,
                 handled, thrown, stopped, endPending, schedBase, bumped, dropped, nMsgs>>

\* --------------------------------------------------------- handleMessage
\* handleMessage of connection k up to its await (or to its end when the
\* audio branch is not taken)
HandleMessage(k, msg) ==
  /\ conn[k] \in {"open", "closing"}
  /\ msg # NoMsg
  /\ nMsgs' = nMsgs + 1
  /\ LET rec == closure[k].isRecording
         s2  == OutputTranscription(InputTranscription(Refs, msg, dateNow), msg, dateNow)
     IN IF msg.audio # NoAudio /\ outputAudioContextRef # 0
          THEN /\ Commit(AudioBegin(s2, currentTime))
               /\ decoding' = decoding \cup {[sid |-> k, msg |-> msg, n |-> nMsgs + 1]}
               /\ UNCHANGED handled
          ELSE /\ LET s4 == AfterAudio(s2, msg, rec)
                  IN /\ Commit(s4)
                     /\ handled' = [n |-> nMsgs + 1, msg |-> msg, handle |-> 0, outcome |-> "done",
                                    sid |-> k, finals |-> s4.finals]
               /\ UNCHANGED decoding
  /\ UNCHANGED <<isRecording, isLoading, savedTranscripts, liveSessionRef, streamRef,
                 inputAudioContextRef, outputAudioContextRef, scriptProcessorRef,
                 startPc, closure, conn, thens, sent, tracksLive, contextsOpen,
                 wired, dateNow, currentTime, captured, nFrames, thrown>>

\* decodeAudioData settles and the suspended handleMessage resumes
DecodeDone(c) ==
  /\ c \in decoding
  /\ decoding' = decoding \ {c}
  /\ IF c.msg.audio = Malformed
       THEN \* decode throws: the handler's promise rejects
            /\ handled' = [n |-> c.n, msg |-> c.msg, handle |-> 0, outcome |-> "decodeError",
                           sid |-> c.sid, finals |-> << >>]
            /\ UNCHANGED <<messages, statusMessage, refVars, handles, stopped,
                           endPending, schedBase, bumped, dropped>>
       ELSE IF outputAudioContextRef = 0
       THEN \* outputAudioContextRef.current.createBufferSource() on null
            /\ handled' = [n |-> c.n, msg |-> c.msg, handle |-> 0, outcome |-> "typeError",
                           sid |-> c.sid, finals |-> << >>]
            /\ UNCHANGED <<messages, statusMessage, refVars, handles, stopped,
                           endPending, schedBase, bumped, dropped>>
       ELSE LET s5 == Resume(Refs, c.msg, closure[c.sid].isRecording)
            IN /\ Commit(s5)
               /\ handled' = [n |-> c.n, msg |-> c.msg, handle |-> s5.handle, outcome |-> "done",
                              sid |-> c.sid, finals |-> s5.finals]
               /\ UNCHANGED <<liveSessionRef, streamRef, inputAudioContextRef,
                              outputAudioContextRef, scriptProcessorRef>>
  /\ UNCHANGED <<isRecording, isLoading, savedTranscripts,
                 startPc, closure, conn, thens, sent, tracksLive, contextsOpen,
                 wired, dateNow, currentTime, captured, nMsgs, nFrames, thrown>>

\* the 'ended' listener of source h, after it played out or was stopped
SourceEnded(h) ==
  /\ \/ h \in outputAudioSourcesRef /\ currentTime >= handles[h].start + handles[h].duration
     \/ h \in endPending
  /\ outputAudioSourcesRef' = outputAudioSourcesRef \ {h}
  /\ endPending' = endPending \ {h}
  /\ statusMessage' = IF outputAudioSourcesRef' = {} /\ ~handles[h].rec
                        THEN "Press the mic to continue." ELSE statusMessage
  /\ UNCHANGED <<isRecording, isLoading, messages, savedTranscripts,
                 liveSessionRef, streamRef, inputAudioContextRef,
                 outputAudioContextRef, scriptProcessorRef, nextStartTimeRef,
                 currentInputTranscriptionRef, currentOutputTranscriptionRef,
                 lastUserMessageIdRef, lastModelMessageIdRef, envVars,
                 handled, thrown, stopped, schedBase, bumped, dropped, captured,
                 nMsgs, nFrames>>

\* ------------------------------------------------ transport error / close
\* what a connection becomes when the transport reports an error on it: the
\* connect promise rejects, an open connection fails, one already asked to
\* close is cut short
ErroredFrom(c) ==
  IF c = "pending" THEN "rejected" ELSE IF c = "open" THEN "errored" ELSE "aborted"

\* the status texts that name the cause of a fatal path
FailedToStart  == "Failed to start: <error.message>"
ErrorStatus    == "Error: <e.message>. Please try again."
ConnectionLost == "Interview ended due to connection loss. Please restart."

\* handleError without its call of stopInterview
HandleError_StatusOnly(k) ==
  /\ conn[k] \in {"pending", "open", "closing"}
  /\ conn' = [conn EXCEPT ![k] = ErroredFrom(@)]
  /\ statusMessage' = ErrorStatus
  /\ UNCHANGED <<isRecording, isLoading, messages, savedTranscripts, refVars,
                 startPc, closure, thens, sent, tracksLive, contextsOpen, wired,
                 decoding, handles, dateNow, currentTime, histVars>>

\* the transport reports an error on connection k: handleError, whose
\* useCallback has no dependencies, so it calls the first render's
\* stopInterview, which sees the first render's (empty) messages
HandleError(k) ==
  /\ conn[k] \in {"pending", "open", "closing"}
  /\ StopInterview(<< >>,
                   [conn EXCEPT ![k] = ErroredFrom(@)],
                   [thens EXCEPT ![k] = << >>])
  /\ UNCHANGED <<startPc, closure, sent, decoding, handles, dateNow, currentTime,
                 handled, captured, nMsgs, nFrames>>

\* the transport closes connection k: handleClose as passed to connect by
\* startInterview, i.e. with the isRecording of the render that started it
HandleClose(k) ==
  /\ conn[k] \in {"open", "closing"}
  /\ IF closure[k].isRecording
       THEN /\ StopInterview(closure[k].messages, [conn EXCEPT ![k] = "closed"], thens)
            /\ UNCHANGED <<startPc, closure, sent, decoding, handles, dateNow,
                           currentTime, handled, captured, nMsgs, nFrames>>
       ELSE /\ conn' = [conn EXCEPT ![k] = "closed"]
            /\ UNCHANGED <<reactVars, refVars, startPc, closure, thens, sent,
                           tracksLive, contextsOpen, wired, decoding, handles,
                           dateNow, currentTime, handled, thrown, stopped, endPending,
                           schedBase, bumped, dropped, captured, nMsgs, nFrames>>

\* ----------------------------------------------------------------- clocks
TickNow ==
  /\ dateNow < MaxNow
  /\ dateNow' = dateNow + 1
  /\ UNCHANGED <<reactVars, refVars, startPc, closure, conn, thens, sent,
                 tracksLive, contextsOpen, wired, decoding, handles, currentTime,
                 histVars>>

TickTime ==
  /\ outputAudioContextRef # 0
  /\ currentTime < MaxTime
  /\ currentTime' = currentTime + 1
  /\ UNCHANGED <<reactVars, refVars, startPc, closure, conn, thens, sent,
                 tracksLive, contextsOpen, wired, decoding, handles, dateNow,
                 histVars>>

\* The inbound messages of each specification.
TextMessages ==
  {m \in Messages : m.audio = NoAudio} \ {NoMsg}

AudioMessages ==
  {m \in Messages : m.input = Absent /\ m.output = Absent
                    /\ (m.audio # NoAudio \/ m.interrupted)}

SessionMessages ==
  {[NoMsg EXCEPT !.input = "Hi"],
   [NoMsg EXCEPT !.output = "Hello", !.audio = 1],
   [NoMsg EXCEPT !.input = "Hi", !.turnComplete = TRUE],
   [NoMsg EXCEPT !.interrupted = TRUE]}

\* the lifecycle events, with at most n invocations of startInterview
LifecycleOf(n) ==
  \/ NextSession \in 1..n /\ StartInterview
  \/ \E k \in Sessions, ok \in BOOLEAN : MicFirst(k, ok)
  \/ \E k \in Sessions, ok \in BOOLEAN : MicSecond(k, ok)
  \/ ToggleStop
  \/ \E k \in Sessions : Open(k)
  \/ \E k \in Sessions : HandleError(k)
  \/ \E k \in Sessions : HandleClose(k)

Lifecycle == LifecycleOf(MaxSessions)

\* The whole client: every lifecycle event, with a small inbound alphabet.
Next ==
  \/ Lifecycle
  \/ \E k \in Sessions, msg \in SessionMessages :
       nMsgs < MaxSessionMsgs /\ HandleMessage(k, msg)
  \/ \E c \in decoding : DecodeDone(c)
  \/ \E h \in DOMAIN handles : SourceEnded(h)

Spec == Init /\ [][Next]_vars

\* The lifecycle with playback: every lifecycle event, with chunks to play as
\* the only inbound messages.
ChunkMessages == {[NoMsg EXCEPT !.output = "Hello", !.audio = 1]}

NextLifecycle ==
  \/ LifecycleOf(MaxStarts)
  \/ \E k \in Sessions, msg \in ChunkMessages :
       nMsgs < MaxSessionMsgs /\ HandleMessage(k, msg)
  \/ \E c \in decoding : DecodeDone(c)
  \/ \E h \in DOMAIN handles : SourceEnded(h)

SpecLifecycle == Init /\ [][NextLifecycle]_vars

\* The lifecycle with the microphone capture callback and no inbound message.
NextCapture ==
  \/ LifecycleOf(MaxStarts)
  \/ \E k \in Sessions : CaptureFrame(k)

SpecCapture == Init /\ [][NextCapture]_vars

\* The state of the first session once its stream has opened: Init followed by
\* StartInterview, MicFirst(1, TRUE), MicSecond(1, TRUE), Open(1).
Active ==
  /\ isRecording = TRUE
  /\ isLoading = FALSE
  /\ messages = << >>
  /\ statusMessage = "Interview started. Waiting for AI to speak..."
  /\ savedTranscripts = << >>
  /\ liveSessionRef = 1
  /\ streamRef = 2
  /\ inputAudioContextRef = 1
  /\ outputAudioContextRef = 1
  /\ scriptProcessorRef = 1
  /\ outputAudioSourcesRef = {}
  /\ nextStartTimeRef = 0
  /\ currentInputTranscriptionRef = ""
  /\ currentOutputTranscriptionRef = ""
  /\ lastUserMessageIdRef = NoId
  /\ lastModelMessageIdRef = NoId
  /\ startPc = [k \in Sessions |-> IF k = 1 THEN "done" ELSE "none"]
  /\ closure = [k \in Sessions |-> [isRecording |-> FALSE, messages |-> << >>]]
  /\ conn = [k \in Sessions |-> IF k = 1 THEN "open" ELSE "none"]
  /\ thens = [k \in Sessions |-> << >>]
  /\ sent = << >>
  /\ tracksLive = {1, 2}
  /\ contextsOpen = {<<"in", 1>>, <<"out", 1>>}
  /\ wired = {1}
  /\ decoding = {}
  /\ handles = << >>
  /\ dateNow = 1
  /\ currentTime = 0
  /\ handled = NoHandled
  /\ stopped = {}
  /\ endPending = {}
  /\ schedBase = 0
  /\ bumped = FALSE
  /\ dropped = [s \in Speakers |-> {}]
  /\ captured = << >>
  /\ nMsgs = 0
  /\ nFrames = 0
  /\ thrown = "none"

\* One open session receiving transcription, turnComplete and interrupted
\* messages: the transcript reconciler.
NextTranscript ==
  \/ \E k \in Sessions, msg \in TextMessages :
       nMsgs < MaxMsgs /\ HandleMessage(k, msg)
  \/ TickNow

SpecTranscript == Active /\ [][NextTranscript]_vars

\* One open session receiving audio chunks: the playback scheduler.
NextPlayback ==
  \/ \E k \in Sessions, msg \in AudioMessages :
       nMsgs < MaxChunks /\ HandleMessage(k, msg)
  \/ \E c \in decoding : DecodeDone(c)
  \/ \E h \in DOMAIN handles : SourceEnded(h)
  \/ ToggleStop
  \/ TickTime

SpecPlayback == Active /\ [][NextPlayback]_vars

\* One open session with a transcript and playback, whose teardown may meet
\* a release call that throws.
NextFaults ==
  \/ \E k \in Sessions, msg \in SessionMessages :
       nMsgs < MaxSessionMsgs /\ HandleMessage(k, msg)
  \/ \E c \in decoding : DecodeDone(c)
  \/ \E h \in DOMAIN handles : SourceEnded(h)
  \/ ToggleStop
  \/ \E fail \in Range(ReleaseSteps) : ToggleStopThrows(fail)
  \/ TickTime

SpecFaults == Active /\ [][NextFaults]_vars

\* ======================================================================
\* Properties
\* ======================================================================
InSent(f) == \E i \in DOMAIN sent : sent[i] = f

TextFor(msg, s) == IF s = "user" THEN msg.input ELSE msg.output

Pending(s) == IF s = "user" THEN currentInputTranscriptionRef
                            ELSE currentOutputTranscriptionRef

LastId(s) == IF s = "user" THEN lastUserMessageIdRef ELSE lastModelMessageIdRef

OpenIdx(s) == {i \in DOMAIN messages : messages[i].isPartial /\ messages[i].speaker = s}

Finalized(seq) == SelectSeq(seq, IsFinal)

IsPrefix(a, b) == Len(a) <= Len(b) /\ \A i \in DOMAIN a : a[i] = b[i]

SpeakerTexts(seq) == [i \in DOMAIN seq |-> <<seq[i].speaker, seq[i].text>>]

\* a handleMessage invocation runs to its end in this step
Completes == handled'.n # handled.n /\ handled'.outcome = "done"

\* C1 (as claimed): no frame captured before the stream's open acknowledgment
\* is ever passed to sendRealtimeInput.
C1_EarlyFramesNeverSent == \A i \in DOMAIN sent : ~sent[i].early

\* C1 (amended): a frame captured while the connection is pending is not
\* passed to sendRealtimeInput as long as the connection is pending or has
\* failed; once the connection has opened every frame captured for it has been
\* passed to sendRealtimeInput, each once and in capture order.
C1_EarlyFramesSentOnOpen ==
  /\ \A i \in DOMAIN captured :
       LET f == captured[i]
       IN f.sid # 0 =>
            /\ conn[f.sid] \in {"pending", "rejected"} => ~InSent(f)
            /\ Settled(f.sid) => InSent(f)
  /\ \A i, j \in DOMAIN sent :
       i < j /\ sent[i].sid = sent[j].sid => sent[i].frame < sent[j].frame

\* a frame captured before the open acknowledgment has been sent
C1_Witness == \E i \in DOMAIN sent : sent[i].early

\* C2: an utterance discarded by interrupted is not finalized by a later
\* turnComplete that arrives without new transcription text for its speaker.
C2_InterruptedNeverFinalized ==
  [][\A s \in Speakers :
       (handled'.n # handled.n /\ dropped[s] # {}
          /\ TextFor(handled'.msg, s) \in {Absent, ""})
       => \A i \in DOMAIN handled'.finals :
            ~(handled'.finals[i].speaker = s /\ handled'.finals[i].text \in dropped[s])]_vars

\* C3: the transcript holds at most one isPartial message per speaker.
C3_AtMostOnePartialPerSpeaker ==
  \A s \in Speakers : Cardinality(OpenIdx(s)) <= 1

\* C4: within a session the finalized messages of the transcript are never
\* replaced or changed: they stay, in order, as the transcript grows.
C4_FinalizedImmutable ==
  [][IsPrefix(Finalized(messages), Finalized(messages'))]_vars

\* C5: right after a transcription update (non-empty text, no turnComplete or
\* interrupted in the message) its speaker has exactly one open partial
\* message, whose text and whose pending text are the supplied text.
C5_OneOpenPartialWithLatestText ==
  \A s \in Speakers :
    (handled.outcome = "done" /\ TextFor(handled.msg, s) \notin {Absent, ""}
       /\ ~handled.msg.turnComplete /\ ~handled.msg.interrupted)
    => /\ Cardinality(OpenIdx(s)) = 1
       /\ \A i \in OpenIdx(s) : messages[i].text = TextFor(handled.msg, s)
       /\ Pending(s) = TextFor(handled.msg, s)

\* the pending text and the message id of speaker s when the turnComplete
\* field of msg is reached, the transcriptions of msg having been handled
PendingAtTurn(msg, s) == IF TextFor(msg, s) # Absent THEN TextFor(msg, s) ELSE Pending(s)

IdAtTurn(msg, s) ==
  IF TextFor(msg, s) \notin {Absent, ""} /\ LastId(s) = NoId
    THEN [p |-> s, n |-> dateNow]
    ELSE LastId(s)

ExpectedFinals(msg) ==
  (IF PendingAtTurn(msg, "user") # ""
     THEN << <<"user", PendingAtTurn(msg, "user")>> >> ELSE << >>)
  \o (IF PendingAtTurn(msg, "model") # ""
        THEN << <<"model", PendingAtTurn(msg, "model")>> >> ELSE << >>)

EmitsExpected ==
  /\ SpeakerTexts(handled'.finals) = ExpectedFinals(handled'.msg)
  /\ \A i \in DOMAIN handled'.finals : ~handled'.finals[i].isPartial
  /\ currentInputTranscriptionRef' = ""
  /\ currentOutputTranscriptionRef' = ""

\* C6 (as claimed): turnComplete after partials for both speakers emits one
\* finalized message per speaker with non-empty pending text, nothing for a
\* speaker with empty pending text, and clears both slots, text and id.
C6_ClearsBothSlots ==
  [][(Completes /\ handled'.msg.turnComplete
        /\ \A s \in Speakers : IdAtTurn(handled'.msg, s) # NoId)
     => /\ EmitsExpected
        /\ lastUserMessageIdRef' = NoId
        /\ lastModelMessageIdRef' = NoId]_vars

\* C6 (amended): turnComplete emits, user first, one finalized message with the
\* last-seen text per speaker whose pending text is non-empty and nothing for
\* the other speaker; both pending texts are empty afterwards; the message id
\* of a finalized speaker is cleared and the id of a speaker with empty pending
\* text is left as it was; a turnComplete right after emits nothing.
C6_FinalizeTurn ==
  [][(Completes /\ handled'.msg.turnComplete)
     => /\ EmitsExpected
        /\ \A s \in Speakers :
             LastId(s)' = IF PendingAtTurn(handled'.msg, s) # ""
                            THEN NoId ELSE IdAtTurn(handled'.msg, s)
        /\ (handled.msg.turnComplete /\ handled.outcome = "done"
              /\ \A s \in Speakers : TextFor(handled'.msg, s) = Absent)
           => handled'.finals = << >>]_vars

\* turnComplete finalized one speaker while the other, whose pending text was
\* empty, keeps the id of its open partial
C6_Witness ==
  /\ handled.msg.turnComplete
  /\ handled.outcome = "done"
  /\ Len(handled.finals) = 1
  /\ handled.finals[1].speaker = "model"
  /\ lastUserMessageIdRef # NoId
  /\ lastModelMessageIdRef = NoId

\* C7 (as claimed): of two chunks scheduled one after the other with no
\* interruption between them, the second starts exactly where the first ends.
C7_Gapless ==
  \A i \in 1..(Len(handles) - 1) :
    handles[i].run = handles[i + 1].run
    => handles[i + 1].start = handles[i].start + handles[i].duration

\* C7 (amended): of two chunks scheduled one after the other with no
\* interruption between them, the second starts no earlier than the first
\* ends (no overlap), and exactly where it ends unless the output clock had
\* passed the cursor when a chunk's message was handled.
C7_NoOverlap ==
  \A i \in 1..(Len(handles) - 1) :
    handles[i].run = handles[i + 1].run
    => /\ handles[i + 1].start >= handles[i].start + handles[i].duration
       /\ ~handles[i + 1].bumped
          => handles[i + 1].start = handles[i].start + handles[i].duration

\* chunks of 1.0 s and 0.5 s scheduled at 0 and 1.0 s (unit: half a second)
C7_Witness ==
  /\ Len(handles) >= 2
  /\ handles[1].run = handles[2].run
  /\ handles[1].duration = 2 /\ handles[1].start = 0
  /\ handles[2].duration = 1 /\ handles[2].start = 2

\* C8: when the interrupted branch of handleMessage has run, the live set is
\* empty and nextStartTime is 0.
C8_FlushAll ==
  [][(Completes /\ handled'.msg.interrupted)
     => outputAudioSourcesRef' = {} /\ nextStartTimeRef' = 0]_vars

\* an interruption flushed a live set of two handles, with the cursor ahead
C8_Witness ==
  /\ handled.msg.interrupted
  /\ handled.outcome = "done"
  /\ handled.handle = 2
  /\ handles[1].run = handles[2].run
  /\ handles[2].start > 0
  /\ stopped = {1, 2}
  /\ outputAudioSourcesRef = {}
  /\ nextStartTimeRef = 0

\* C9: the chunk of a message that also carries interrupted=true has been
\* stopped and is not in the live set when the handler of the message ends.
C9_InterruptedStopsOwnChunk ==
  (handled.outcome = "done" /\ handled.handle # 0 /\ handled.msg.interrupted)
  => handled.handle \in stopped /\ handled.handle \notin outputAudioSourcesRef

\* a message with an audio chunk and interrupted=true has been handled
C9_Witness ==
  /\ handled.outcome = "done"
  /\ handled.handle # 0
  /\ handled.msg.interrupted
  /\ handled.handle \in stopped

\* C10: a transport close of the open connection of an Active session, with no
\* stop requested, tears the session down: not recording, not loading, and the
\* stream, contexts, capture node and session released.
C10_CloseTearsDown ==
  [][\A k \in Sessions :
       (conn[k] = "open" /\ liveSessionRef = k /\ isRecording /\ conn'[k] = "closed")
       => /\ ~isRecording' /\ ~isLoading'
          /\ streamRef' = 0 /\ inputAudioContextRef' = 0
          /\ outputAudioContextRef' = 0 /\ scriptProcessorRef' = 0
          /\ liveSessionRef' = 0 /\ outputAudioSourcesRef' = {}]_vars

\* ------------------------------------------------------------------ C11
\* the refs through which the component holds the resources of a session
SessionRefs ==
  {streamRef, inputAudioContextRef, outputAudioContextRef, scriptProcessorRef,
   liveSessionRef}
NoneHeld == SessionRefs = {0} /\ outputAudioSourcesRef = {}
AllHeld  == 0 \notin SessionRefs

\* the transport's error callback runs for connection k
ErrorStep(k) ==
  /\ conn[k] \in {"pending", "open", "closing"}
  /\ conn'[k] \in {"rejected", "errored", "aborted"}

\* everything the refs pointed to before the step is released after it
ReleasedByStep ==
  /\ streamRef # 0 => streamRef \notin tracksLive'
  /\ scriptProcessorRef # 0 => scriptProcessorRef \notin wired'
  /\ inputAudioContextRef # 0 => <<"in", inputAudioContextRef>> \notin contextsOpen'
  /\ outputAudioContextRef # 0 => <<"out", outputAudioContextRef>> \notin contextsOpen'
  /\ outputAudioSourcesRef \subseteq stopped'
  /\ liveSessionRef # 0 =>
       /\ conn'[liveSessionRef] # "open"
       /\ conn'[liveSessionRef] = "pending" => HasClose(thens'[liveSessionRef])

Idle == ~isRecording /\ ~isLoading /\ NoneHeld

\* the catch block of startInterview invocation k runs
CatchStep(k) == startPc[k] \in {"mic1", "mic2"} /\ startPc'[k] = "failed"

\* stopInterview runs while the session is Idle; toggleInterview calls it
\* only while a flag is set, so the callers are handleError and the catch block
StopWhileIdle == Idle /\ \E k \in Sessions : ErrorStep(k) \/ CatchStep(k)

\* the invocations of startInterview so far
Started == {k \in Sessions : startPc[k] # "none"}

\* C12: a stopInterview that runs while the session is already Idle (after
\* an earlier stop, with no start in between) changes neither the flags nor
\* the refs nor the devices and appends no Archive entry; the archive holds
\* at most one entry per session started.
C12_StopIdempotent ==
  [][/\ StopWhileIdle =>
          /\ UNCHANGED <<isRecording, isLoading, liveSessionRef, streamRef,
                         inputAudioContextRef, outputAudioContextRef,
                         scriptProcessorRef, outputAudioSourcesRef,
                         tracksLive, contextsOpen, wired>>
          /\ savedTranscripts' = savedTranscripts
     /\ Len(savedTranscripts') <= Cardinality(Started')]_vars

\* ------------------------------------------------------------------ C13
\* toggleInterview runs stopInterview
StopStep == (isRecording \/ isLoading) /\ ~isRecording' /\ ~isLoading'

\* C13: whichever single release call of stopInterview throws, every other
\* release is still performed (microphone track stopped, capture node
\* disconnected, contexts closed, playback handles stopped, remote stream
\* asked to close) and the session ends Idle with its refs cleared.
C13_EveryReleaseGuarded ==
  [][StopStep =>
       /\ thrown' # "track.stop" /\ streamRef # 0 => streamRef \notin tracksLive'
       /\ thrown' # "scriptProcessor.disconnect" /\ Capturing =>
            scriptProcessorRef \notin wired'
       /\ thrown' # "inputAudioContext.close" /\ Capturing =>
            <<"in", inputAudioContextRef>> \notin contextsOpen'
       /\ (outputAudioSourcesRef \ FailedSource(thrown')) \subseteq stopped'
       /\ thrown' # "outputAudioContext.close" /\ outputAudioContextRef # 0 =>
            <<"out", outputAudioContextRef>> \notin contextsOpen'
       /\ thrown' # "session.close" /\ liveSessionRef # 0 =>
            conn'[liveSessionRef] # "open"
       /\ Idle']_vars

\* ------------------------------------------------------------------ C14
\* every a in seq comes before every b in seq
Before(seq, a, b) ==
  \A i, j \in DOMAIN seq : seq[i] = a /\ seq[j] = b => i < j

\* the members of order that occur in seq occur in the order of order
InOrder(seq, order) ==
  \A i, j \in DOMAIN order : i < j => Before(seq, order[i], order[j])

\* the effect of one call of stopInterview, seen across the step that runs it
Done(step) ==
  CASE step = "saveCurrentTranscript" ->
         Len(savedTranscripts') = Len(savedTranscripts) + 1
    [] step = "track.stop" -> streamRef \notin tracksLive'
    [] step = "scriptProcessor.disconnect" -> scriptProcessorRef \notin wired'
    [] step = "inputAudioContext.close" ->
         <<"in", inputAudioContextRef>> \notin contextsOpen'
    [] step = "source.stop" -> outputAudioSourcesRef \subseteq stopped'
    [] step = "outputAudioContext.close" ->
         <<"out", outputAudioContextRef>> \notin contextsOpen'
    [] step = "session.close" -> conn'[liveSessionRef] = "closing"

\* C14 (as claimed): teardown stops the microphone capture, disconnects the
\* capture callback, releases the microphone device, stops and clears the
\* playback, releases the audio output device, closes the remote stream, and
\* only then commits the transcript to the Archive; so a stop that is cut
\* short by a throwing release call has committed nothing.
C14_CommitLast ==
  [][StopStep =>
       /\ InOrder(TeardownSteps(messages, "none"),
                  ReleaseSteps \o <<"saveCurrentTranscript">>)
       /\ AbortsAt(thrown') # "none" => savedTranscripts' = savedTranscripts]_vars

\* C14 (amended): stopInterview commits the transcript to the Archive first
\* and then releases in the order track.stop, disconnect, input context
\* close, source.stop, output context close, session.close; of the calls a
\* run would make, exactly those made before a throwing call (and not the
\* throwing call itself) have taken effect after the step.
C14_CommitFirst ==
  [][StopStep =>
       /\ InOrder(TeardownSteps(messages, "none"),
                  <<"saveCurrentTranscript">> \o ReleaseSteps)
       /\ \A step \in Range(TeardownSteps(messages, "none")) :
            Done(step) <=> /\ step \in Range(TeardownSteps(messages, thrown'))
                           /\ step # thrown']_vars

\* a stop whose track.stop() threw: the entry is in the Archive while the
\* microphone, the capture node, the contexts and the stream are still held
C14_Witness ==
  /\ thrown = "track.stop"
  /\ Len(savedTranscripts) = 1
  /\ streamRef \in tracksLive /\ scriptProcessorRef \in wired
  /\ contextsOpen = {<<"in", 1>>, <<"out", 1>>} /\ conn[1] = "open"

\* ------------------------------------------------------------------ C15
\* C15: every Archive entry contains only finalized messages (none with
\* isPartial set).
C15_ArchiveOnlyFinalized ==
  \A i \in DOMAIN savedTranscripts :
    \A j \in DOMAIN savedTranscripts[i].messages :
      ~savedTranscripts[i].messages[j].isPartial

\* the session was stopped after a message that carried a transcription and
\* turnComplete, when the transcript held the partial and the finalized
\* message: the entry holds the finalized one alone
C15_Witness ==
  /\ handled.msg.input = "Hi" /\ handled.msg.turnComplete
  /\ Len(savedTranscripts) = 1
  /\ Len(savedTranscripts[1].messages) = 1
  /\ savedTranscripts[1].messages[1].text = "Hi"

\* ------------------------------------------------------------------ C16
\* a handleMessage that was suspended in decodeAudioData on a well-formed
\* chunk resumes after stopInterview has run (the audio branch is entered
\* only while outputAudioContextRef is set, and only stopInterview clears it)
ResumesAfterStop ==
  \E c \in decoding :
    c \notin decoding' /\ c.msg.audio \in Durations /\ outputAudioContextRef = 0

\* C16: a handleMessage that resumes from decodeAudioData after
\* stopInterview ran raises no error and has no effect: it creates no
\* playback handle, starts no audio, and leaves nextStartTime and the live
\* set as they were.
C16_ResumeAfterStopSilent ==
  [][ResumesAfterStop =>
       /\ handled'.outcome # "typeError"
       /\ handles' = handles
       /\ UNCHANGED <<nextStartTimeRef, outputAudioSourcesRef>>]_vars

\* ------------------------------------------------------------------ C17
\* C17: when the microphone cannot be acquired in startInterview, that
\* invocation opens no remote stream and wires no capture callback, the
\* status shows the failure, the session ends Idle and the invocation makes
\* no further attempt.
C17_MicFailureSurfaced ==
  [][\A k \in Sessions :
       CatchStep(k) =>
         /\ conn'[k] = "none" /\ k \notin wired'
         /\ ~isRecording' /\ ~isLoading'
         /\ statusMessage' = FailedToStart]_vars

\* ------------------------------------------------------------------ C18
\* C18: when the decode of an inbound chunk fails, only that chunk is
\* dropped: no playback handle is added, the session stays Active, the
\* turnComplete and interrupted fields of the same message are handled as
\* they are for a message without audio, and the session keeps its resources
\* for the messages that follow.
C18_DecodeFailureDropsChunk ==
  [][\A c \in decoding :
       c \notin decoding' /\ c.msg.audio = Malformed /\ isRecording =>
         LET after == AfterAudio(Refs, c.msg, closure[c.sid].isRecording)
         IN  /\ handles' = handles
             /\ isRecording' /\ AllHeld'
             /\ messages' = after.messages
             /\ statusMessage' = after.status
             /\ outputAudioSourcesRef' = after.live
             /\ nextStartTimeRef' = after.nst]_vars

\* ------------------------------------------------------------------ C19
\* the transport closes the open connection of the Active session
CloseWhileActive(k) ==
  conn[k] = "open" /\ liveSessionRef = k /\ isRecording /\ conn'[k] = "closed"

\* C19: at the end of every fatal path (microphone failure, transport error,
\* unexpected close) the status is the text that names the cause, not a
\* generic ended or saved text.
C19_StatusNamesCause ==
  [][\A k \in Sessions :
       /\ CatchStep(k) => statusMessage' = FailedToStart
       /\ ErrorStep(k) => statusMessage' = ErrorStatus
       /\ CloseWhileActive(k) => statusMessage' = ConnectionLost]_vars

\* ------------------------------------------------------------------ C20
\* the remote streams that are open (connected and not asked to close)
OpenStreams == {k \in Sessions : conn[k] = "open"}

\* C20: whatever the order of toggle, start, stop, open, error and close
\* events, at most one remote stream is open at any time, and so at most one
\* session is Active.
C20_AtMostOneOpenStream == Cardinality(OpenStreams) <= 1

\* ------------------------------------------------------------------ C21
\* a handleMessage invocation allocates a message id for speaker s: the
\* message carries non-empty transcription text and s has no open id
Allocates(s) ==
  /\ handled'.n # handled.n
  /\ LastId(s) = NoId
  /\ TextFor(handled'.msg, s) \notin {Absent, ""}

\* C21: an id allocated for a new utterance differs from the id of every
\* earlier utterance of the same speaker in the transcript, whatever
\* Date.now() returns, also when it returns the same value twice.
C21_IdsUnique ==
  [][\A s \in Speakers :
       Allocates(s) =>
         \A i \in DOMAIN messages :
           ~(messages[i].speaker = s /\ messages[i].id = IdAtTurn(handled'.msg, s))]_vars

\* ------------------------------------------------------------------ C22
\* the capture callback runs while the stream it sends on is open
CapturesOnOpen ==
  /\ nFrames' = nFrames + 1
  /\ liveSessionRef # 0
  /\ conn[liveSessionRef] = "open"

\* the frames passed to sendRealtimeInput of stream k, in the order sent
SentOn(k) == SelectSeq(sent, LAMBDA f : f.sid = k)

\* C22: once the stream is open, a capture callback invocation passes
\* exactly one message, carrying its frame, to sendRealtimeInput and leaves
\* nothing waiting; on each stream the frames are sent in capture order,
\* each once.
C22_OneSendPerCapture ==
  [][/\ CapturesOnOpen =>
          /\ sent' = Append(sent, [frame |-> nFrames + 1, sid |-> liveSessionRef,
                                   early |-> FALSE])
          /\ thens' = thens
     /\ \A k \in Sessions :
          \A i, j \in DOMAIN SentOn(k)' :
            i < j => SentOn(k)'[i].frame < SentOn(k)'[j].frame]_vars

\* two frames captured on the open stream, both sent, in capture order
C22_Witness ==
  /\ conn[1] = "open"
  /\ Len(sent) = 2
  /\ ~sent[1].early /\ ~sent[2].early
  /\ sent[1].frame = 1 /\ sent[2].frame = 2

\* ------------------------------------------------------------------ C23
\* a handleMessage invocation starts a playback handle in this step
Starts == handled'.n # handled.n /\ handled'.handle # 0

\* C23: the start time given to a playback handle is not earlier than the
\* output clock's value at the moment the handle is started, however long
\* the decode took.
C23_StartNotInPast ==
  [][Starts => handles'[handled'.handle].start >= currentTime]_vars

\* ------------------------------------------------------------------ C24
\* the chunk of a message is started right after the chunk of a message
\* that arrived later
StartsAfterLater == Starts /\ handled.handle # 0 /\ handled.n > handled'.n

\* C24: of two audio messages, the handle of the one that arrived first
\* gets a start time no later than the handle of the one that arrived
\* second, in whichever order their decodes settle.
C24_ArrivalOrder ==
  [][StartsAfterLater =>
       handles'[handled'.handle].start <= handles'[handled.handle].start]_vars

\* ------------------------------------------------------------------ C25
\* the last handleMessage invocation that ran to its end handled interrupted
InterruptHandled == handled.outcome = "done" /\ handled.msg.interrupted

\* C25: once an interrupted signal has been handled, no chunk of a message
\* that arrived before it is started or added to the live set, also when
\* its decode was in flight while the interruption was handled.
C25_NoStartAfterInterrupt ==
  [][InterruptHandled /\ handled'.n # handled.n /\ handled'.n < handled.n =>
       /\ handled'.handle = 0
       /\ handles' = handles
       /\ outputAudioSourcesRef' = outputAudioSourcesRef]_vars

\* ------------------------------------------------------------------ C26
\* the speakers whose utterance the completed invocation finalized
FinalizedSpeakers == {handled'.finals[i].speaker : i \in DOMAIN handled'.finals}

\* C26: when turnComplete finalizes a speaker's utterance, the transcript
\* afterwards holds no isPartial message of that speaker, and no two of its
\* messages share (id, speaker).
C26_FinalizedReplacesPartial ==
  [][Completes /\ handled'.msg.turnComplete =>
       /\ \A s \in FinalizedSpeakers :
            \A i \in DOMAIN messages' :
              ~(messages'[i].speaker = s /\ messages'[i].isPartial)
       /\ \A i, j \in DOMAIN messages' :
            (messages'[i].id = messages'[j].id
               /\ messages'[i].speaker = messages'[j].speaker) => i = j]_vars

\* ------------------------------------------------------------------ C27
\* an Active session is ended in this step: stopInterview runs (called by
\* toggleInterview, handleError or a catch block) or the transport closes
\* the session's open connection
EndsActive ==
  isRecording /\ (StopStep \/ \E k \in Sessions : CloseWhileActive(k))

\* the step appends one Archive entry that holds exactly msgs
Archives(msgs) ==
  /\ Len(savedTranscripts') = Len(savedTranscripts) + 1
  /\ SubSeq(savedTranscripts', 1, Len(savedTranscripts)) = savedTranscripts
  /\ savedTranscripts'[Len(savedTranscripts')].messages = msgs

\* C27: whatever ends an Active session, if the transcript holds a finalized
\* message at that moment, exactly one Archive entry is appended, holding
\* exactly the finalized messages in transcript order.
C27_ArchivedOnEveryEnd ==
  [][EndsActive /\ Finalized(messages) # << >> => Archives(Finalized(messages))]_vars

\* ---------------------------------------------------------------- C28
\* onmessage of connection k runs: a new handleMessage invocation begins, on
\* a connection that is not the one the client currently holds (its session
\* was torn down, or a newer session replaced it)
DeliveredOn(k) ==
  /\ nMsgs' = nMsgs + 1
  /\ \/ handled'.n = nMsgs + 1 /\ handled'.sid = k
     \/ \E c \in decoding' \ decoding : c.sid = k
StaleDelivery == \E k \in Sessions : DeliveredOn(k) /\ liveSessionRef # k

\* C28: a message of a session delivered after that session's teardown, or
\* after a newer session has started, is discarded: the transcript, the
\* open-partial slots, the scheduler state and the status stay as they were
C28_StaleMessageDiscarded ==
  [][StaleDelivery =>
       UNCHANGED <<messages, currentInputTranscriptionRef, currentOutputTranscriptionRef,
                   lastUserMessageIdRef, lastModelMessageIdRef, nextStartTimeRef,
                   outputAudioSourcesRef, statusMessage>>]_vars

\* ---------------------------------------------------------------- C29
\* the remote stream of every session is closed, failed or asked to close
CloseRequested(c, t) ==
  \A k \in Sessions : /\ c[k] # "open"
                      /\ c[k] = "pending" => HasClose(t[k])

\* C29: when stopInterview has run to its end, every resource acquired by
\* startInterview is released: no microphone track is live, no capture node
\* is wired, no audio context is open, every remote stream was asked to
\* close, the live set is empty, nextStartTime is 0 and both open-partial
\* slots are cleared
C29_EverythingReleased ==
  [][StopStep /\ thrown' = "none" =>
       /\ tracksLive' = {}
       /\ wired' = {}
       /\ contextsOpen' = {}
       /\ CloseRequested(conn', thens')
       /\ outputAudioSourcesRef' = {}
       /\ nextStartTimeRef' = 0
       /\ currentInputTranscriptionRef' = "" /\ currentOutputTranscriptionRef' = ""
       /\ lastUserMessageIdRef' = NoId /\ lastModelMessageIdRef' = NoId]_vars

\* ---------------------------------------------------------------- C30
\* stopInterview has run and startInterview was not invoked since: every
\* startInterview sets isLoading, onopen sets isRecording, and only
\* stopInterview clears both
StoppedSinceStart == ~isRecording /\ ~isLoading

\* this step is an invocation of startInterview
StartsAnew == \E k \in Sessions : startPc[k] = "none" /\ startPc'[k] # "none"

\* C30: once stopInterview has run, and until startInterview is invoked
\* anew, the session does not become Active again: isRecording stays false,
\* no microphone stream is acquired, and no remote stream is requested or
\* opened; a startInterview that was awaiting the microphone or the open
\* acknowledgment when the stop ran does nothing more
C30_NoProgressAfterStop ==
  [][StoppedSinceStart /\ ~StartsAnew =>
       /\ ~isRecording'
       /\ tracksLive' \subseteq tracksLive
       /\ \A k \in Sessions :
            conn'[k] \in {"pending", "open"} => conn'[k] = conn[k]]_vars

====
